---- MODULE Spec2Model ----
(***************************************************************************)
(* Domino-Agent backend: CausalDiscoveryEngine (src/backend/engine.py).    *)
(*                                                                         *)
(* One call of analyze_event(event_text) is modelled step by step: the     *)
(* construction of the networkx DiGraph, the root discovery call           *)
(* _get_impacts(event_text, 3), the loop over the direct impacts with one  *)
(* downstream discovery call _get_impacts(downstream_event, 2) each, the   *)
(* narrative call and the serialisation of the graph.                      *)
(*                                                                         *)
(* The generative backend (detective, reviewer) is the environment: every  *)
(* invocation either raises or answers with a value of the schema.  What   *)
(* it may answer in one run is fixed by the variable llm, drawn in Init    *)
(* from the bounded family Backends.                                       *)
(***************************************************************************)
EXTENDS Integers, Sequences, FiniteSets, TLC

\* ------------------------------------------------------------------ bounds

\* Longest candidate list the detective returns under each backend family.
PoolReuse == 2
PoolFan == 3
PoolWide == 4
PoolLong == 6

\* ------------------------------------------------------- program constants

\* _get_impacts: "Generate exactly 5 potential causal impacts"
PromptedCandidates == 5

\* The root call asks for as many impacts as the detective is prompted for.
DirectCountAsPrompted == PromptedCandidates
\* analyze_event: self._get_impacts(event_text, count=3)
DirectCount == 3

\* The downstream call asks for as many impacts as the root call.
DownstreamCountAsDirect == DirectCount
\* analyze_event: self._get_impacts(downstream_event, count=2)
DownstreamCount == 2

\* an empty string in place of the fallback text
FallbackEmpty == ""

\* _generate_narrative: the string returned when chain.invoke raises
Fallback == "Analysis complete. Unable to generate narrative summary."

\* _generate_narrative: what chain.invoke returns when it answers
Paragraph == "generated paragraph"

\* ------------------------------------------------------------------ values

\* class Impact(BaseModel)
Impact(t, s, x) == [target_entity |-> t, sentiment |-> s, explanation |-> x]

\* The event text of the request (EventRequest.event).
EventTexts == {"E"}

\* What the backend may answer in one run: the impacts the detective may
\* list for the root event and for a downstream event, and the longest list.
Backends ==
  { \* one entity with two readings, met again one level down
    [direct     |-> {Impact("A", "positive", "x1"), Impact("A", "negative", "x2")},
     downstream |-> {Impact("A", "positive", "x1"), Impact("B", "negative", "x2")},
     pool       |-> PoolReuse],
    \* two entities, each a sub-impact of the other
    [direct     |-> {Impact("A", "positive", "x1"), Impact("B", "positive", "x1")},
     downstream |-> {Impact("A", "negative", "x2"), Impact("B", "negative", "x2")},
     pool       |-> PoolReuse],
    \* the event itself as a direct impact
    [direct     |-> {Impact("E", "positive", "x1"), Impact("A", "positive", "x1")},
     downstream |-> {Impact("B", "positive", "x1"), Impact("C", "negative", "x2")},
     pool       |-> PoolReuse],
    \* the event itself as a sub-impact
    [direct     |-> {Impact("A", "positive", "x1")},
     downstream |-> {Impact("E", "negative", "x2"), Impact("B", "positive", "x1")},
     pool       |-> PoolReuse],
    \* one entity accepted more than once, more candidates than a
    \* downstream call asks for
    [direct     |-> {Impact("A", "positive", "x1")},
     downstream |-> {Impact("B", "positive", "x1"), Impact("C", "positive", "x1"),
                     Impact("D", "negative", "x2")},
     pool       |-> PoolFan],
    \* more candidates than the root call asks for, nothing below them
    [direct     |-> {Impact("A", "positive", "x1"), Impact("B", "positive", "x1"),
                     Impact("C", "negative", "x2"), Impact("D", "negative", "x2")},
     downstream |-> {},
     pool       |-> PoolWide],
    \* more candidates than the prompt asks for
    [direct     |-> {Impact("A", "positive", "x1")},
     downstream |-> {Impact("A", "positive", "x1")},
     pool       |-> PoolLong] }

\* ------------------------------------------------------- attribute dicts

EmptyDict == [k \in {} |-> k]

\* dict.update(a)
Update(d, a) ==
  [k \in (DOMAIN d) \cup (DOMAIN a) |-> IF k \in DOMAIN a THEN a[k] ELSE d[k]]

\* d[k] = v for a key k that d may or may not hold
Extend(f, k, v) == [x \in (DOMAIN f) \cup {k} |-> IF x = k THEN v ELSE f[x]]

\* attrs.get(k, default)
Get(d, k, default) == IF k \in DOMAIN d THEN d[k] ELSE default

\* ---------------------------------------------------------- nx.DiGraph
\* A DiGraph keeps its nodes in insertion order with one attribute dict
\* each, and at most one edge per ordered pair with one attribute dict.

\* nx.DiGraph()
DiGraph == [order |-> <<>>, attrs |-> EmptyDict, eorder |-> <<>>, eattrs |-> EmptyDict]

\* graph.has_node(n)
HasNode(G, n) == n \in DOMAIN G.attrs

\* graph.add_node(n, **a): a new node, or an update of the node's dict
AddNode(G, n, a) ==
  IF HasNode(G, n)
    THEN [G EXCEPT !.attrs[n] = Update(@, a)]
    ELSE [G EXCEPT !.order = Append(@, n), !.attrs = Extend(@, n, a)]

\* add_edge that leaves the attributes of an existing edge as they are
AddEdgeKeepFirst(G, u, v, a) ==
  LET G1 == IF HasNode(G, u) THEN G ELSE AddNode(G, u, EmptyDict)
      G2 == IF HasNode(G1, v) THEN G1 ELSE AddNode(G1, v, EmptyDict)
  IN  IF <<u, v>> \in DOMAIN G2.eattrs
        THEN G2
        ELSE [G2 EXCEPT !.eorder = Append(@, <<u, v>>),
                        !.eattrs = Extend(@, <<u, v>>, a)]

\* graph.add_edge(u, v, **a): missing endpoints are created without
\* attributes; an existing edge (u, v) has its dict updated
AddEdge(G, u, v, a) ==
  LET G1 == IF HasNode(G, u) THEN G ELSE AddNode(G, u, EmptyDict)
      G2 == IF HasNode(G1, v) THEN G1 ELSE AddNode(G1, v, EmptyDict)
  IN  IF <<u, v>> \in DOMAIN G2.eattrs
        THEN [G2 EXCEPT !.eattrs[<<u, v>>] = Update(@, a)]
        ELSE [G2 EXCEPT !.eorder = Append(@, <<u, v>>),
                        !.eattrs = Extend(@, <<u, v>>, a)]

\* graph.edges(data=True) lists the edges source by source, the sources in
\* node order and each source's edges in insertion order.
RECURSIVE EdgeList(_, _)
EdgeList(G, i) ==
  IF i = 0 THEN <<>>
  ELSE EdgeList(G, i - 1) \o SelectSeq(G.eorder, LAMBDA e : e[1] = G.order[i])

\* _graph_to_json
GraphToJson(G) ==
  LET el == EdgeList(G, Len(G.order))
  IN  [nodes |-> [i \in 1..Len(G.order) |->
                    LET n == G.order[i]
                        a == G.attrs[n]
                    IN  [id    |-> n,
                         label |-> Get(a, "label", n),
                         type  |-> Get(a, "type", "Entity"),
                         layer |-> Get(a, "layer", 0)]],
       edges |-> [i \in 1..Len(el) |->
                    LET a == G.eattrs[el[i]]
                    IN  [source      |-> el[i][1],
                         target      |-> el[i][2],
                         sentiment   |-> Get(a, "sentiment", "neutral"),
                         explanation |-> Get(a, "explanation", "")]]]

\* ------------------------------------------------------------------ state

VARIABLES
  event_text,          \* the argument of analyze_event
  llm,                 \* what the backend may answer in this run
  pc,                  \* where the run stands
  graph,               \* analyze_event: graph
  direct_impacts,      \* analyze_event: direct_impacts
  di,                  \* analyze_event: position of the outer for loop
  downstream_impacts,  \* analyze_event: downstream_impacts
  si,                  \* analyze_event: position of the inner for loop
  caller,              \* which call of _get_impacts is running
  event_description,   \* _get_impacts: event_description
  count,               \* _get_impacts: count
  ncandidates,         \* _get_impacts: len(candidate_impacts)
  candidate_impacts,   \* _get_impacts: the candidates the loop has read
  idx,                 \* _get_impacts: idx of enumerate(candidate_impacts, 1)
  validated_impacts,   \* _get_impacts: validated_impacts
  graph_data,          \* _generate_narrative: graph_data
  narrative,           \* analyze_event: narrative
  result,              \* analyze_event: the returned value
  proposer_calls,      \* detective_chain.invoke calls so far
  validator_calls,     \* reviewer_chain.invoke calls so far
  narrative_calls,     \* narrative chain.invoke calls so far
  approved,            \* the (event, candidate) pairs the reviewer found valid
  inserted,            \* the add_edge calls so far: source and impact
  verdicts,            \* _get_impacts: whether each candidate read so far was accepted
  raised,              \* _get_impacts: whether the last reviewer_chain.invoke raised
  proposed,            \* the event descriptions the detective was invoked with
  root_answer,         \* how the detective answered the root call
  narrative_raised     \* whether the narrative chain.invoke raised

vars == <<event_text, llm, pc, graph, direct_impacts, di, downstream_impacts, si,
          caller, event_description, count, ncandidates, candidate_impacts, idx,
          validated_impacts, graph_data, narrative, result, proposer_calls,
          validator_calls, narrative_calls, approved, inserted, verdicts, raised,
          proposed, root_answer, narrative_raised>>

analysis == <<event_text, llm, graph, direct_impacts, di, downstream_impacts, si>>
frame == <<caller, event_description, count, ncandidates, candidate_impacts, idx,
           validated_impacts, verdicts, raised>>
output == <<graph_data, narrative, result, narrative_raised>>
counters == <<proposer_calls, validator_calls, narrative_calls>>
history == <<proposed, root_answer>>

None == "none"

\* The root event as an event description, and the f-string
\* f"Change in {impact.target_entity} due to {event_text}"
RootEvent(text) == <<text>>
\* the f-string with its two fields exchanged
DownstreamEventSwapped(target, text) == <<"Change in ", text, " due to ", target>>

DownstreamEvent(target, text) == <<"Change in ", target, " due to ", text>>

\* The impacts the detective may list for an event description.
Repertoire(desc) == IF Len(desc) = 1 THEN llm.direct ELSE llm.downstream

Min(a, b) == IF a < b THEN a ELSE b

\* validated_impacts[:count]
Truncate(s, n) == SubSeq(s, 1, Min(n, Len(s)))

Init ==
  /\ event_text \in EventTexts
  /\ llm \in Backends
  /\ pc = "idle"
  /\ graph = DiGraph
  /\ direct_impacts = <<>>
  /\ di = 0
  /\ downstream_impacts = <<>>
  /\ si = 0
  /\ caller = None
  /\ event_description = <<>>
  /\ count = 0
  /\ ncandidates = 0
  /\ candidate_impacts = <<>>
  /\ idx = 0
  /\ validated_impacts = <<>>
  /\ graph_data = [nodes |-> <<>>, edges |-> <<>>]
  /\ narrative = None
  /\ result = [nodes |-> <<>>, edges |-> <<>>, narrative |-> None]
  /\ proposer_calls = 0
  /\ validator_calls = 0
  /\ narrative_calls = 0
  /\ approved = {}
  /\ inserted = <<>>
  /\ verdicts = <<>>
  /\ raised = FALSE
  /\ proposed = <<>>
  /\ root_answer = None
  /\ narrative_raised = FALSE

\* ------------------------------------------------------------ _get_impacts

\* A call of _get_impacts(desc, n) from the site who: the frame is fresh.
CallGetImpacts(who, desc, n) ==
  /\ pc' = "detective"
  /\ caller' = who
  /\ event_description' = desc
  /\ count' = n
  /\ ncandidates' = 0
  /\ candidate_impacts' = <<>>
  /\ idx' = 0
  /\ validated_impacts' = <<>>
  /\ verdicts' = <<>>
  /\ raised' = FALSE

\* The value r is returned to the call site and the frame is gone.
ReturnImpacts(r) ==
  /\ IF caller = "direct"
       THEN /\ direct_impacts' = r
            /\ di' = 1
            /\ pc' = "direct"
            /\ UNCHANGED <<downstream_impacts, si>>
       ELSE /\ downstream_impacts' = r
            /\ si' = 1
            /\ pc' = "sub"
            /\ UNCHANGED <<direct_impacts, di>>
  /\ caller' = None
  /\ event_description' = <<>>
  /\ count' = 0
  /\ ncandidates' = 0
  /\ candidate_impacts' = <<>>
  /\ idx' = 0
  /\ validated_impacts' = <<>>
  /\ verdicts' = <<>>
  /\ raised' = FALSE

\* The detective was invoked with the description desc; a is how it
\* answered, which is kept for the root call.
Proposed(desc, a) ==
  /\ proposed' = Append(proposed, desc)
  /\ root_answer' = IF caller = "direct" THEN a ELSE root_answer

\* a placeholder impact in place of the empty list
NoImpactsPlaceholder == <<Impact("A", "positive", "x1")>>

\* except Exception: return []
NoImpacts == <<>>

\* detective_chain.invoke raises, or its answer does not parse: return []
DetectiveFails ==
  /\ pc = "detective"
  /\ proposer_calls' = proposer_calls + 1
  /\ Proposed(event_description, "failed")
  /\ ReturnImpacts(NoImpacts)
  /\ UNCHANGED <<event_text, llm, graph, output, validator_calls, narrative_calls,
                 approved, inserted>>

\* detective_chain.invoke answers with a list of candidates.  The list is
\* read front to back by the loop; the model draws its length here and each
\* element when the loop reads it.
DetectiveAnswers ==
  /\ pc = "detective"
  /\ proposer_calls' = proposer_calls + 1
  /\ \E n \in 0..llm.pool :
       /\ n > 0 => Repertoire(event_description) # {}
       /\ ncandidates' = n
       /\ Proposed(event_description, IF n = 0 THEN "empty" ELSE "candidates")
  /\ pc' = "reviewer"
  /\ UNCHANGED <<analysis, output, validator_calls, narrative_calls, approved, inserted,
                 caller, event_description, count, candidate_impacts, idx,
                 validated_impacts, verdicts, raised>>

\* the check with > in place of >=
EnoughValidatedStrict(validated, n) == Len(validated) > n

\* The check at the end of the try block: len(validated_impacts) >= count
EnoughValidated(validated, n) == Len(validated) >= n

\* append without looking at result.valid
ValidatedAlways(validated, impact, valid) == Append(validated, impact)

\* insert(0, impact) in place of append(impact)
ValidatedPrepend(validated, impact, valid) ==
  IF valid THEN <<impact>> \o validated ELSE validated

\* if result.valid: validated_impacts.append(impact)
Validated(validated, impact, valid) ==
  IF valid THEN Append(validated, impact) ELSE validated

\* One iteration of the for loop whose reviewer_chain.invoke answers.
ReviewerAnswers ==
  /\ pc = "reviewer"
  /\ idx < ncandidates
  /\ \E impact \in Repertoire(event_description), valid \in BOOLEAN :
       LET validated == Validated(validated_impacts, impact, valid)
       IN  /\ candidate_impacts' = Append(candidate_impacts, impact)
           /\ validated_impacts' = validated
           /\ approved' = IF valid
                            THEN approved \cup {<<event_description, impact>>}
                            ELSE approved
           /\ verdicts' = Append(verdicts, valid)
           /\ raised' = FALSE
           /\ pc' = IF EnoughValidated(validated, count) THEN "return" ELSE "reviewer"
  /\ idx' = idx + 1
  /\ validator_calls' = validator_calls + 1
  /\ UNCHANGED <<analysis, output, proposer_calls, narrative_calls, inserted, history,
                 caller, event_description, count, ncandidates>>

\* break in place of continue
AfterValidationErrorBreak == "return"

\* except Exception: continue
AfterValidationError == "reviewer"

\* One iteration of the for loop whose reviewer_chain.invoke raises, or
\* whose answer does not parse: continue
ReviewerFails ==
  /\ pc = "reviewer"
  /\ idx < ncandidates
  /\ \E impact \in Repertoire(event_description) :
       candidate_impacts' = Append(candidate_impacts, impact)
  /\ verdicts' = Append(verdicts, FALSE)
  /\ raised' = TRUE
  /\ idx' = idx + 1
  /\ validator_calls' = validator_calls + 1
  /\ pc' = AfterValidationError
  /\ UNCHANGED <<analysis, output, proposer_calls, narrative_calls, approved, inserted,
                 history, caller, event_description, count, ncandidates,
                 validated_impacts>>

\* The for loop has read every candidate.
ReviewerDone ==
  /\ pc = "reviewer"
  /\ idx >= ncandidates
  /\ pc' = "return"
  /\ UNCHANGED <<analysis, frame, output, counters, approved, inserted, history>>

\* return validated_impacts[:count]
GetImpactsReturn ==
  /\ pc = "return"
  /\ ReturnImpacts(Truncate(validated_impacts, count))
  /\ UNCHANGED <<event_text, llm, graph, output, counters, approved, inserted, history>>

\* ----------------------------------------------------------- analyze_event

\* The attributes of the edge of an impact.
EdgeAttrs(impact) ==
  [sentiment |-> impact.sentiment, explanation |-> impact.explanation]

\* graph = nx.DiGraph(); graph.add_node(root_id, ...)
NewGraph(text) == AddNode(DiGraph, text, [label |-> text, type |-> "Event", layer |-> 0])

\* add_node without the has_node test
AddEntityAlways(G, n, l) ==
  AddNode(G, n, [label |-> n, type |-> "Entity", layer |-> l])

\* if not graph.has_node(n): graph.add_node(n, label=n, type="Entity", layer=l)
AddEntity(G, n, l) ==
  IF ~HasNode(G, n)
    THEN AddNode(G, n, [label |-> n, type |-> "Entity", layer |-> l])
    ELSE G

\* The body of the outer loop up to the downstream call: node and edge of
\* a direct impact.
InsertDirect(G, root_id, impact) ==
  AddEdge(AddEntity(G, impact.target_entity, 1), root_id, impact.target_entity,
          EdgeAttrs(impact))

\* the inner loop with layer=1 as in the outer loop
InsertSubLayerOne(G, node_id, sub_impact) ==
  AddEdge(AddEntity(G, sub_impact.target_entity, 1), node_id,
          sub_impact.target_entity, EdgeAttrs(sub_impact))

\* the inner loop with node_id for both ends of the edge
InsertSubSelfLoop(G, node_id, sub_impact) ==
  AddEdge(AddEntity(G, sub_impact.target_entity, 2), node_id,
          node_id, EdgeAttrs(sub_impact))

\* the inner loop with layer=0
InsertSubLayerZero(G, node_id, sub_impact) ==
  AddEdge(AddEntity(G, sub_impact.target_entity, 0), node_id,
          sub_impact.target_entity, EdgeAttrs(sub_impact))

\* the inner loop without its add_node
InsertSubEdgeOnly(G, node_id, sub_impact) ==
  AddEdge(G, node_id, sub_impact.target_entity, EdgeAttrs(sub_impact))

\* The body of the inner loop: node and edge of a sub-impact.
InsertSub(G, node_id, sub_impact) ==
  AddEdge(AddEntity(G, sub_impact.target_entity, 2), node_id,
          sub_impact.target_entity, EdgeAttrs(sub_impact))

\* analyze_event up to the root discovery call
AnalyzeEvent ==
  /\ pc = "idle"
  /\ graph' = NewGraph(event_text)
  /\ CallGetImpacts("direct", RootEvent(event_text), DirectCount)
  /\ UNCHANGED <<event_text, llm, direct_impacts, di, downstream_impacts, si, output,
                 counters, approved, inserted, history>>

\* for impact in direct_impacts: node, edge, downstream discovery call
DirectImpact ==
  /\ pc = "direct"
  /\ di <= Len(direct_impacts)
  /\ LET impact == direct_impacts[di]
     IN  /\ graph' = InsertDirect(graph, event_text, impact)
         /\ inserted' = Append(inserted, [source |-> event_text, impact |-> impact,
                                          depth |-> 1])
         /\ CallGetImpacts("downstream",
                           DownstreamEvent(impact.target_entity, event_text),
                           DownstreamCount)
  /\ UNCHANGED <<event_text, llm, direct_impacts, di, downstream_impacts, si, output,
                 counters, approved, history>>

\* for sub_impact in downstream_impacts: node, edge
SubImpact ==
  /\ pc = "sub"
  /\ si <= Len(downstream_impacts)
  /\ LET node_id == direct_impacts[di].target_entity
         sub_impact == downstream_impacts[si]
     IN  /\ graph' = InsertSub(graph, node_id, sub_impact)
         /\ inserted' = Append(inserted, [source |-> node_id, impact |-> sub_impact,
                                          depth |-> 2])
  /\ si' = si + 1
  /\ UNCHANGED <<event_text, llm, pc, direct_impacts, di, downstream_impacts, frame,
                 output, counters, approved, history>>

\* The inner loop is over: the next direct impact.
SubDone ==
  /\ pc = "sub"
  /\ si > Len(downstream_impacts)
  /\ di' = di + 1
  /\ pc' = "direct"
  /\ UNCHANGED <<event_text, llm, graph, direct_impacts, downstream_impacts, si, frame,
                 output, counters, approved, inserted, history>>

\* The outer loop is over: _generate_narrative serialises the graph.
DirectDone ==
  /\ pc = "direct"
  /\ di > Len(direct_impacts)
  /\ graph_data' = GraphToJson(graph)
  /\ pc' = "narrative"
  /\ UNCHANGED <<analysis, frame, narrative, result, narrative_raised, counters,
                 approved, inserted, history>>

\* _generate_narrative: chain.invoke answers, or raises
GenerateNarrative ==
  /\ pc = "narrative"
  /\ narrative_calls' = narrative_calls + 1
  /\ \E ok \in BOOLEAN :
       /\ narrative' = IF ok THEN Paragraph ELSE Fallback
       /\ narrative_raised' = ~ok
  /\ pc' = "serialize"
  /\ UNCHANGED <<analysis, frame, graph_data, result, proposer_calls, validator_calls,
                 approved, inserted, history>>

\* result = self._graph_to_json(graph); result['narrative'] = narrative
ReturnResult ==
  /\ pc = "serialize"
  /\ result' = [nodes |-> GraphToJson(graph).nodes, edges |-> GraphToJson(graph).edges,
                narrative |-> narrative]
  /\ pc' = "done"
  /\ UNCHANGED <<analysis, frame, graph_data, narrative, narrative_raised, counters,
                 approved, inserted, history>>

Next ==
  \/ AnalyzeEvent
  \/ DetectiveFails
  \/ DetectiveAnswers
  \/ ReviewerAnswers
  \/ ReviewerFails
  \/ ReviewerDone
  \/ GetImpactsReturn
  \/ DirectImpact
  \/ SubImpact
  \/ SubDone
  \/ DirectDone
  \/ GenerateNarrative
  \/ ReturnResult

Spec == Init /\ [][Next]_vars

\* The run is one synchronous call: a step that can be taken is taken, and
\* every backend invocation returns or raises.
FairSpec == Spec /\ WF_vars(Next)

\* analyze_event has returned.
Returned == pc = "done"

\* Every run reaches the return of analyze_event.
Terminates == <>Returned

\* ------------------------------------------------------- the returned graph

Done == pc = "done"

Range(s) == {s[i] : i \in 1..Len(s)}

\* The node records and edge records of the returned value.
ResultNodes == Range(result.nodes)
ResultEdges == Range(result.edges)

\* The layer the returned value gives the node id.
ResultLayer(id) == (CHOOSE r \in ResultNodes : r.id = id).layer

\* The edges of the returned value that leave the node id.
ResultOut(id) == {e \in ResultEdges : e.source = id}

\* Every inserted impact named a node the graph did not hold yet.
FreshTargets ==
  \A i \in 1..Len(inserted) :
    /\ inserted[i].impact.target_entity # event_text
    /\ \A j \in 1..(i - 1) :
         inserted[j].impact.target_entity # inserted[i].impact.target_entity

\* The pairs (u, v) joined by a path of one or more edges of R.
RECURSIVE Paths(_)
Paths(R) ==
  LET R2 == R \cup {<<p[1], q[2]>> : <<p, q>> \in {pq \in R \X R : pq[1][2] = pq[2][1]}}
  IN  IF R2 = R THEN R ELSE Paths(R2)

\* No directed cycle, self-loops included, among the edges of the result.
ResultAcyclic ==
  \A p \in Paths({<<e.source, e.target>> : e \in ResultEdges}) : p[1] # p[2]

\* ------------------------------------------------------------------ claims

\* C1 (as stated): in the returned graph every edge (u, v) has
\* layer(v) = layer(u) + 1, whatever names the accepted impacts carry.
C1_EveryEdgeOneLayerDown ==
  Done => \A e \in ResultEdges : ResultLayer(e.target) = ResultLayer(e.source) + 1

\* C1 (amended): in the returned graph of a run in which every accepted
\* impact named a node the graph did not hold yet, every edge (u, v) has
\* layer(v) = layer(u) + 1.
C1_FreshEdgesOneLayerDown ==
  (Done /\ FreshTargets) =>
    \A e \in ResultEdges : ResultLayer(e.target) = ResultLayer(e.source) + 1

C1_Witness ==
  /\ Done
  /\ FreshTargets
  /\ \E i \in 1..Len(inserted) : inserted[i].depth = 2
  /\ \E e \in ResultEdges : ResultLayer(e.source) = 1 /\ ResultLayer(e.target) = 2

\* C2 (as stated): in the returned graph every node of layer 1 has at most
\* 2 outgoing edges.
C2_LayerOneFanOutTwo ==
  Done => \A r \in ResultNodes : r.layer = 1 => Cardinality(ResultOut(r.id)) <= 2

\* The accepted direct impacts that name the node id.
DirectNaming(id) == {i \in 1..Len(direct_impacts) : direct_impacts[i].target_entity = id}

\* C2 (amended): in the returned graph a node of layer 1 has at most 2
\* outgoing edges for each accepted direct impact that names it: 2 when
\* the direct impacts name distinct entities, 6 at most.
C2_LayerOneFanOutPerExpansion ==
  Done => \A r \in ResultNodes :
            r.layer = 1 =>
              /\ Cardinality(ResultOut(r.id)) <= 2 * Cardinality(DirectNaming(r.id))
              /\ Cardinality(ResultOut(r.id)) <= 6

C2_Witness ==
  /\ Done
  /\ \E r \in ResultNodes :
       /\ r.layer = 1
       /\ Cardinality(DirectNaming(r.id)) = 2
       /\ Cardinality(ResultOut(r.id)) = 3

\* C3 (as stated): the graph of a run never contains a directed cycle,
\* self-loops included, whatever names the accepted impacts carry.
C3_NeverACycle == Done => ResultAcyclic

\* C3 (amended): the graph of a run in which every accepted impact named a
\* node the graph did not hold yet contains no directed cycle and no
\* self-loop.
C3_FreshTargetsNoCycle == (Done /\ FreshTargets) => ResultAcyclic

C3_Witness ==
  /\ Done
  /\ FreshTargets
  /\ Len(inserted) >= 3
  /\ \E p \in Paths({<<e.source, e.target>> : e \in ResultEdges}) :
       p[1] = event_text /\ ResultLayer(p[2]) = 2

\* The last inserted impact for the pair (u, v).
LastInserted(u, v) ==
  LET at == {i \in 1..Len(inserted) :
               inserted[i].source = u /\ inserted[i].impact.target_entity = v}
  IN  inserted[CHOOSE i \in at : \A j \in at : j <= i].impact

\* The ordered pairs for which an impact was inserted.
InsertedPairs == {<<inserted[i].source, inserted[i].impact.target_entity>> :
                    i \in 1..Len(inserted)}

\* C4 (as stated): edges are not deduplicated: the number of edges of the
\* result equals the number of accepted impacts inserted during the run.
C4_OneEdgePerInsertedImpact == Done => Len(result.edges) = Len(inserted)

\* C4 (amended): the result holds exactly one edge for every ordered pair
\* (source, target) for which an accepted impact was inserted, and that
\* edge carries the sentiment and explanation of the last impact inserted
\* for the pair.
C4_OneEdgePerPairLastWins ==
  Done =>
    /\ Len(result.edges) = Cardinality(InsertedPairs)
    /\ {<<e.source, e.target>> : e \in ResultEdges} = InsertedPairs
    /\ \A e \in ResultEdges :
         /\ e.sentiment = LastInserted(e.source, e.target).sentiment
         /\ e.explanation = LastInserted(e.source, e.target).explanation

C4_Witness ==
  /\ Done
  /\ Len(result.edges) < Len(inserted)
  /\ \E i \in 1..Len(inserted) :
       \E e \in ResultEdges :
         /\ e.source = inserted[i].source
         /\ e.target = inserted[i].impact.target_entity
         /\ e.sentiment # inserted[i].impact.sentiment

\* C5 (as stated): a discovery call makes 1 proposer invocation and at most
\* 5 validator invocations, and a run makes at most 25 invocations.
C5_AtMostTwentyFiveInvocations ==
  /\ idx <= PromptedCandidates
  /\ proposer_calls <= 1 + DirectCount
  /\ proposer_calls + validator_calls + narrative_calls
       <= 1 + PromptedCandidates + DirectCount * (1 + PromptedCandidates) + 1

\* The ids of the graph's node sequence are pairwise different, and they
\* are the nodes that have an attribute dict.
OneNodePerId(G) ==
  /\ \A i, j \in 1..Len(G.order) : G.order[i] = G.order[j] => i = j
  /\ Range(G.order) = DOMAIN G.attrs

\* The depth of the first inserted impact that names the node n.
FirstSeenDepth(n) ==
  LET at == {i \in 1..Len(inserted) : inserted[i].impact.target_entity = n}
  IN  inserted[CHOOSE i \in at : \A j \in at : i <= j].depth

\* Every node of the graph but the root has the layer of its first insertion.
FirstSeenLayerWins ==
  \A n \in DOMAIN graph.attrs :
    n # event_text => graph.attrs[n].layer = FirstSeenDepth(n)

\* A step keeps every node of the graph, with its attributes.
NodesKept ==
  \A n \in DOMAIN graph.attrs :
    n \in DOMAIN graph'.attrs /\ graph'.attrs[n] = graph.attrs[n]

\* C6: at every point of a run the graph has at most one node per id, a
\* node once inserted keeps its layer and type, and a node's layer is the
\* layer at which it was first inserted.
C6_FirstSeenLayerKept ==
  /\ [](OneNodePerId(graph) /\ FirstSeenLayerWins)
  /\ [][NodesKept]_vars

C6_Witness ==
  /\ Done
  /\ \E i, j \in 1..Len(inserted) :
       /\ i < j
       /\ inserted[i].impact.target_entity = inserted[j].impact.target_entity
       /\ inserted[i].depth # inserted[j].depth

\* The nodes of layer 1 in the returned value.
ResultLayerOne == {r \in ResultNodes : r.layer = 1}

\* C7 (as stated): the final graph has at most 3 nodes of layer 1 and at
\* most 3 edges whose source is the root node.
C7_ThreeDirectNodesAndEdges ==
  Done => /\ Cardinality(ResultLayerOne) <= 3
          /\ Cardinality(ResultOut(event_text)) <= 3

\* C7 (amended): the final graph has at most 3 nodes of layer 1, and at
\* most 3 edges whose source is the root node plus 2 for each accepted
\* direct impact whose target_entity is the event text itself.
C7_ThreeDirectNodesRootEdgesPerExpansion ==
  Done => /\ Cardinality(ResultLayerOne) <= 3
          /\ Cardinality(ResultOut(event_text))
               <= 3 + 2 * Cardinality(DirectNaming(event_text))

C7_Witness ==
  /\ Done
  /\ Cardinality(DirectNaming(event_text)) = 1
  /\ Cardinality(ResultOut(event_text)) = 4

\* The attributes of the root node.
RootAttrs == [label |-> event_text, type |-> "Event", layer |-> 0]

\* C8: from before the first discovery call on, the graph holds exactly
\* one node of layer 0: its id and label are event_text, its type is
\* "Event", and its attributes stay as they were created, also when an
\* accepted impact names event_text; the returned value shows the same.
C8_OneRootNode ==
  /\ pc = "idle" => proposer_calls = 0 /\ validator_calls = 0
  /\ pc # "idle" =>
       /\ HasNode(graph, event_text)
       /\ graph.order[1] = event_text
       /\ graph.attrs[event_text] = RootAttrs
       /\ {n \in DOMAIN graph.attrs : Get(graph.attrs[n], "layer", 0) = 0} = {event_text}
  /\ Done =>
       {r \in ResultNodes : r.layer = 0}
         = {[id |-> event_text, label |-> event_text, type |-> "Event", layer |-> 0]}

C8_Witness ==
  /\ Done
  /\ \E i \in 1..Len(inserted) : inserted[i].impact.target_entity = event_text

\* C9: the validator is invoked only while fewer than count candidates
\* were accepted in this discovery call (count is 2 or 3), and the loop of
\* a discovery call ends only when count candidates were accepted or every
\* candidate was read.
C9_EarlyStop ==
  /\ [][validator_calls' # validator_calls =>
          count \in {2, 3} /\ Len(validated_impacts) < count]_vars
  /\ [][(pc = "reviewer" /\ pc' = "return") =>
          (Len(validated_impacts') >= count \/ idx' >= ncandidates)]_vars

C9_Witness ==
  /\ pc = "return"
  /\ Len(validated_impacts) = count
  /\ idx < ncandidates

\* The event description of the discovery call an inserted impact came from.
InsertedFrom(ins) ==
  IF ins.depth = 1 THEN RootEvent(event_text)
  ELSE DownstreamEvent(ins.source, event_text)

\* C10: every impact that reaches the graph is a candidate the validator
\* returned valid = true for: every inserted impact, every edge with its
\* attributes and every node but the root stems from one; and when no
\* candidate of the run was found valid, the returned graph has the root
\* node only and no edge.
C10_OnlyValidatedReachTheGraph ==
  /\ \A i \in 1..Len(inserted) : <<InsertedFrom(inserted[i]), inserted[i].impact>> \in approved
  /\ \A i \in 1..Len(validated_impacts) : <<event_description, validated_impacts[i]>> \in approved
  /\ \A e \in DOMAIN graph.eattrs :
       \E a \in approved :
         /\ a[2].target_entity = e[2]
         /\ graph.eattrs[e] = EdgeAttrs(a[2])
         /\ a[1] \in {RootEvent(e[1]), DownstreamEvent(e[1], event_text)}
  /\ \A n \in DOMAIN graph.attrs :
       n # event_text => \E a \in approved : a[2].target_entity = n
  /\ (Done /\ approved = {}) =>
       /\ result.nodes = <<[id |-> event_text, label |-> event_text, type |-> "Event",
                            layer |-> 0]>>
       /\ result.edges = <<>>

C10_Witness ==
  /\ Done
  /\ approved = {}
  /\ validator_calls > 0
  /\ Len(result.nodes) = 1

\* The record the serializer emits for the root node.
RootRecord == [id |-> event_text, label |-> event_text, type |-> "Event", layer |-> 0]

\* C11: when the detective's invocation for the root event raises or
\* yields no candidate, no validator and no further detective invocation
\* is made, nothing is inserted, the run reaches its return, and the
\* returned value has the root node only, no edge, and the generated
\* paragraph or the fallback string as narrative.
C11_EmptyRootDiscovery ==
  /\ [](root_answer \in {"failed", "empty"} =>
          /\ validator_calls = 0
          /\ proposer_calls = 1
          /\ inserted = <<>>
          /\ direct_impacts = <<>>
          /\ pc \in {"reviewer", "return", "direct", "narrative", "serialize", "done"}
          /\ Done =>
               /\ result.nodes = <<RootRecord>>
               /\ result.edges = <<>>
               /\ result.narrative
                    \in {Paragraph,
                         "Analysis complete. Unable to generate narrative summary."})
  /\ (root_answer \in {"failed", "empty"}) ~> Done

C11_Witness ==
  /\ Done
  /\ root_answer = "failed"
  /\ Len(result.nodes) = 1

\* C12: when the narrative invocation raises, the run goes on to its
\* return with the fallback string as narrative, the narrative step leaves
\* the graph as it is, and the returned nodes and edges are those of the
\* graph serialised before the invocation, whatever its outcome.
C12_NarrativeFailureKeepsGraph ==
  /\ [](narrative_raised =>
          /\ narrative = "Analysis complete. Unable to generate narrative summary."
          /\ pc \in {"serialize", "done"})
  /\ [](Done => /\ result.narrative = narrative
                /\ result.nodes = graph_data.nodes
                /\ result.edges = graph_data.edges
                /\ result.nodes = GraphToJson(graph).nodes
                /\ result.edges = GraphToJson(graph).edges)
  /\ [][pc = "narrative" => graph' = graph /\ graph_data' = graph_data
                            /\ pc' = "serialize"]_vars

C12_Witness ==
  /\ Done
  /\ narrative_raised
  /\ Len(result.edges) > 0

\* C13: a validator invocation that raises leaves the accepted list and
\* the count as they were, keeps the discovery call in its loop, and the
\* next step of the loop validates the next candidate if there is one.
C13_ValidationErrorSkips ==
  /\ [][(validator_calls' # validator_calls /\ raised') =>
          /\ validated_impacts' = validated_impacts
          /\ count' = count
          /\ ncandidates' = ncandidates
          /\ idx' = idx + 1
          /\ pc' = "reviewer"]_vars
  /\ [][(pc = "reviewer" /\ raised /\ idx < ncandidates) =>
          /\ validator_calls' = validator_calls + 1
          /\ idx' = idx + 1]_vars

C13_Witness ==
  /\ pc = "reviewer"
  /\ raised
  /\ idx < ncandidates
  /\ Len(validated_impacts) = 1

\* The node id is the root or is reached from the root in the result.
FromRoot(id) ==
  \/ id = event_text
  \/ <<event_text, id>> \in Paths({<<e.source, e.target>> : e \in ResultEdges})

RECURSIVE AcceptedUpTo(_)
AcceptedUpTo(i) ==
  IF i = 0 THEN <<>>
  ELSE IF verdicts[i] THEN Append(AcceptedUpTo(i - 1), candidate_impacts[i])
       ELSE AcceptedUpTo(i - 1)

\* The first min(count, number accepted) accepted candidates.
FirstAccepted ==
  LET acc == AcceptedUpTo(Len(candidate_impacts))
  IN  SubSeq(acc, 1, IF count < Len(acc) THEN count ELSE Len(acc))

\* C15: the value a discovery call returns is the sequence of the first
\* min(count, number accepted) accepted candidates in proposal order; it
\* has at most count elements and leaves no accepted candidate out.
C15_ResultIsFirstAccepted ==
  /\ [](pc = "return" => /\ Len(FirstAccepted) <= count
                         /\ FirstAccepted = AcceptedUpTo(Len(candidate_impacts)))
  /\ [][(caller = "direct" /\ caller' = None) => direct_impacts' = FirstAccepted]_vars
  /\ [][(caller = "downstream" /\ caller' = None) =>
          downstream_impacts' = FirstAccepted]_vars

C15_Witness ==
  /\ pc = "return"
  /\ Len(validated_impacts) = 2
  /\ validated_impacts[1] # validated_impacts[2]
  /\ \E i \in 1..Len(verdicts) : ~verdicts[i] /\ i < Len(verdicts)

\* The positions of the direct impacts among the inserted impacts.
DirectAt == {i \in 1..Len(inserted) : inserted[i].depth = 1}

\* C16: the direct impacts are inserted in their order, the sub-impacts of
\* a direct impact are inserted before the next direct impact, the
\* narrative is invoked once, after every discovery call, and from then on
\* the graph stays as it is, so the narrative is computed from the graph
\* that is returned.
C16_SequentialThenNarrative ==
  /\ [][inserted' # inserted =>
          LET r == inserted'[Len(inserted')]
              d == Cardinality(DirectAt)
              pair == <<r.source, r.impact.target_entity>>
          IN  /\ inserted' = Append(inserted, r)
              /\ proposer_calls = d + 1
              /\ narrative_calls = 0
              /\ r.depth \in {1, 2}
              /\ r.depth = 1 => /\ r.source = event_text
                                /\ d < Len(direct_impacts)
                                /\ r.impact = direct_impacts[d + 1]
              /\ r.depth = 2 => /\ d >= 1
                                /\ r.source = direct_impacts[d].target_entity
                                /\ r.source = inserted[CHOOSE j \in DirectAt :
                                                \A k \in DirectAt : k <= j].impact.target_entity
              /\ graph'.eorder = IF pair \in Range(graph.eorder) THEN graph.eorder
                                 ELSE Append(graph.eorder, pair)]_vars
  /\ [][graph' # graph => inserted' # inserted \/ pc = "idle"]_vars
  /\ [](/\ narrative_calls <= 1
        /\ narrative_calls = 1 => pc \in {"serialize", "done"} /\ caller = None
        /\ Done => /\ narrative_calls = 1
                   /\ graph_data = GraphToJson(graph)
                   /\ result.nodes = graph_data.nodes
                   /\ result.edges = graph_data.edges)
  /\ [][narrative_calls = 1 => /\ graph' = graph
                               /\ inserted' = inserted
                               /\ proposer_calls' = proposer_calls
                               /\ validator_calls' = validator_calls
                               /\ narrative_calls' = narrative_calls]_vars

C16_Witness ==
  /\ Done
  /\ Len(inserted) = 4
  /\ inserted[1].depth = 1 /\ inserted[2].depth = 2
  /\ inserted[3].depth = 1 /\ inserted[4].depth = 2

\* C17: the detective is invoked once for the root event and once for each
\* direct impact, with "Change in {target_entity} due to {event_text}",
\* never again after a call that raised or was empty, so 1 + d times in a
\* run with d <= 3 direct impacts; and every candidate read is passed to
\* the validator once.
C17_OneProposalPerDiscovery ==
  /\ [](/\ Len(proposed) = proposer_calls
        /\ pc = "detective" => proposer_calls = Cardinality(DirectAt)
        /\ pc \notin {"idle", "detective"} => proposer_calls = 1 + Cardinality(DirectAt)
        /\ \A k \in 1..Len(proposed) :
             proposed[k] = IF k = 1 THEN <<event_text>>
                           ELSE <<"Change in ", direct_impacts[k - 1].target_entity,
                                  " due to ", event_text>>
        /\ idx = Len(candidate_impacts)
        /\ idx <= ncandidates
        /\ Done => /\ proposer_calls = 1 + Len(direct_impacts)
                   /\ Len(direct_impacts) <= 3)
  /\ [][proposer_calls' # proposer_calls =>
          proposer_calls' = proposer_calls + 1 /\ pc' # "detective"]_vars
  /\ [][validator_calls' # validator_calls =>
          /\ validator_calls' = validator_calls + 1
          /\ idx' = idx + 1
          /\ SubSeq(candidate_impacts', 1, idx) = candidate_impacts]_vars

C17_Witness ==
  /\ Done
  /\ Len(direct_impacts) = 3
  /\ proposer_calls = 4
  /\ Len(inserted) = 3

\* C18: at every step every node of the graph has the attributes label,
\* type and layer, every edge has sentiment and explanation and joins two
\* such nodes, so the serializer never falls back on a default.
C18_NoImplicitNodes ==
  /\ [](/\ \A n \in DOMAIN graph.attrs :
             DOMAIN graph.attrs[n] = {"label", "type", "layer"}
        /\ \A e \in DOMAIN graph.eattrs :
             /\ DOMAIN graph.eattrs[e] = {"sentiment", "explanation"}
             /\ e[1] \in DOMAIN graph.attrs
             /\ e[2] \in DOMAIN graph.attrs
        /\ Done => /\ \A i \in 1..Len(result.nodes) :
                        LET r == result.nodes[i]
                        IN  /\ r.label = graph.attrs[r.id].label
                            /\ r.type = graph.attrs[r.id].type
                            /\ r.layer = graph.attrs[r.id].layer
                   /\ \A e \in ResultEdges :
                        LET a == graph.eattrs[<<e.source, e.target>>]
                        IN  /\ e.sentiment = a.sentiment
                            /\ e.explanation = a.explanation)
  /\ [][\A e \in (DOMAIN graph'.eattrs) \ (DOMAIN graph.eattrs) :
          /\ HasNode(graph', e[1]) /\ DOMAIN graph'.attrs[e[1]] # {}
          /\ HasNode(graph', e[2]) /\ DOMAIN graph'.attrs[e[2]] # {}]_vars

C18_Witness ==
  /\ Done
  /\ Len(result.nodes) = 4
  /\ Len(result.edges) = 3

\* C19: the returned graph has at most 10 nodes and at most 9 edges: at
\* most 3 impacts are inserted from the root call and 2 from each of at
\* most 3 downstream calls, an insertion adds one edge and one node at
\* most; the detective is invoked 4 times at most; and every run reaches
\* its return.
C19_BoundedGraphAndTermination ==
  /\ [](/\ Cardinality(DirectAt) <= 3
        /\ Len(inserted) - Cardinality(DirectAt) <= 2 * Cardinality(DirectAt)
        /\ Len(inserted) <= 9
        /\ Len(graph.order) <= 1 + Len(inserted)
        /\ Len(graph.eorder) <= Len(inserted)
        /\ proposer_calls <= 4
        /\ narrative_calls <= 1
        /\ Done => Len(result.nodes) <= 10 /\ Len(result.edges) <= 9)
  /\ <>Done

C19_Witness ==
  /\ Done
  /\ Len(inserted) = 9
  /\ Len(result.edges) < 9

====
